---------------------------- MODULE Spec2Model ----------------------------
(***************************************************************************)
(* A model of the secret-mem crate: the typestate container SecretBox<T,L> *)
(* (src/src/boxed.rs), the memoized allocator selection and page size    *)
(* (src/src/alloc/mod.rs), the secret memory regions of the back ends     *)
(* (src/src/alloc/linux.rs, unix.rs, windows.rs) and the descriptor       *)
(* wrappers (src/src/alloc/ffi/unix.rs).                                   *)
(*                                                                         *)
(* A region is a run of memory cells with a page protection.  A store to a *)
(* cell of a read-only or unmapped region is a memory fault: the process   *)
(* is killed and nothing after the faulting step runs.                     *)
(***************************************************************************)
EXTENDS Integers, Sequences, FiniteSets, TLC

\* ------------------------------------------------------------- bounds
MaxBoxes   == 3   \* container values ever constructed (new, lock, unlock)
MaxRegions == 1   \* regions ever mapped
MaxVal     == 2   \* contained values are 0..MaxVal; 0 is the all-zero pattern
MaxThreads == 3   \* threads calling platform_secret_allocator and page_size
WordBits   == 5   \* width of usize in the model
PageSize   == 2   \* cells per page, a power of two
SizeOfT    == 1   \* Layout::new::<T>().size(), in cells
AlignOfT   == 1   \* Layout::new::<T>().align()

Values  == 0..MaxVal
BoxIds  == 1..MaxBoxes
RegIds  == 1..MaxRegions
NoVal   == 0 - 1  \* "no value": nothing recorded, or a read that faulted
Bools   == {TRUE, FALSE}
\* T without drop glue (i32), and T whose destructor overwrites its own bytes
\* (a self-zeroizing key type).
Glues   == {"none", "writes"}

VARIABLES
    allocator,  \* static INSTANCE of platform_secret_allocator: "uninit", "linux", "unix"
    boxes,      \* every SecretBox value ever constructed
    regions,    \* every region ever mapped
    nboxes,     \* number of SecretBox values constructed so far
    nregions,   \* number of regions mapped so far
    crashed,    \* the process was killed by a memory fault
    ret,        \* the last call and what it returned
    held,       \* per box: value read when lock() was called, carried over unlock()
    expect,     \* per box: value passed to new() or last stored through deref_mut
    mem,        \* the provider region made by <Backend>SecretMemoryMut::with_length
    os,         \* the last provider call: its OS calls and the resources it left
    calc,       \* the last aligned_layout_size call: its arguments and its result
    once,       \* the OnceLock statics INSTANCE and PAGE_SIZE
    threads     \* per thread: where it is in a get_or_init call, what it last got

vars == <<allocator, boxes, regions, nboxes, nregions, crashed, ret, held, expect,
          mem, os, calc, once, threads>>

\* ------------------------------------------------- machine arithmetic
WordMod == 2 ^ WordBits

wrapping_add(a, b) == (a + b) % WordMod
wrapping_sub(a, b) == (a - b + WordMod) % WordMod

RECURSIVE BitAnd(_, _)
BitAnd(a, b) ==
    IF a = 0 \/ b = 0 THEN 0
    ELSE (IF a % 2 = 1 /\ b % 2 = 1 THEN 1 ELSE 0) + 2 * BitAnd(a \div 2, b \div 2)

BitNot(a) == (WordMod - 1) - a

Max(a, b) == IF a >= b THEN a ELSE b

\* util::page_size: the cached OS page size.
page_size == PageSize

\* Rounding to the alignment of the layout alone, the page size left out.
aligned_layout_size_without_page(size, lalign) ==
    BitAnd(wrapping_sub(wrapping_add(size, lalign), 1), BitNot(wrapping_sub(lalign, 1)))

\* The same rounding in a word one bit narrower, where size + align wraps.
aligned_layout_size_half_word(size, lalign) ==
    LET align == Max(lalign, page_size)
        half  == 2 ^ (WordBits - 1)
    IN  BitAnd(((((size + align) % half) + half) - 1) % half,
               BitNot(wrapping_sub(align, 1))) % half

\* util::aligned_layout_size
aligned_layout_size(size, lalign) ==
    LET align == Max(lalign, page_size)
    IN  BitAnd(wrapping_sub(wrapping_add(size, align), 1), BitNot(wrapping_sub(align, 1)))

\* ------------------------------------------------------------ regions
ZeroBytes(len) == [c \in 1..len |-> 0]

NoRegion == [mapped |-> FALSE, perm |-> "none", len |-> 0, bytes |-> <<>>,
             log |-> <<>>, fault |-> FALSE, dtors |-> 0, deallocs |-> 0, oserrs |-> 0]

\* A with_length that records the page-aligned size in place of its argument.
with_length_page_aligned(len) ==
    [mapped |-> TRUE, perm |-> "rw", len |-> aligned_layout_size(len, 1),
     bytes |-> ZeroBytes(aligned_layout_size(len, 1)),
     log |-> <<>>, fault |-> FALSE, dtors |-> 0, deallocs |-> 0, oserrs |-> 0]

\* <Backend>SecretMemoryMut::with_length on its success path: a fresh
\* zero-filled mapping of len cells, readable and writable.
with_length(len) ==
    [mapped |-> TRUE, perm |-> "rw", len |-> len, bytes |-> ZeroBytes(len),
     log |-> <<>>, fault |-> FALSE, dtors |-> 0, deallocs |-> 0, oserrs |-> 0]

\* A generic POSIX release that does not zero the region.
DropMutSteps_unix_keeps_bytes(backend) ==
    IF backend = "linux"
    THEN <<"zeroize", "munmap">>
    ELSE IF backend = "windows"
    THEN <<"zeroize", "VirtualUnlock", "VirtualFree">>
    ELSE <<"madvise_dodump", "munlock", "munmap">>

\* Drop for LinuxSecretMemoryMut / UnixSecretMemoryMut / WindowsSecretMemoryMut:
\* the OS calls in order.
DropMutSteps(backend) ==
    IF backend = "linux"
    THEN <<"zeroize", "munmap">>
    ELSE IF backend = "windows"
    THEN <<"zeroize", "VirtualUnlock", "VirtualFree">>
    ELSE <<"zeroize", "madvise_dodump", "munlock", "munmap">>

\* A release that unlocks the pages before it zeroes them.
DropReadOnlySteps_unlock_first(backend) ==
    IF backend = "linux"
    THEN <<"mprotect_write", "munmap", "zeroize">>
    ELSE IF backend = "windows"
    THEN <<"VirtualProtect_readwrite", "VirtualUnlock", "zeroize", "VirtualFree">>
    ELSE <<"mprotect_write", "madvise_dodump", "munlock", "zeroize", "munmap">>

\* Drop for LinuxSecretMemory / UnixSecretMemory / WindowsSecretMemory (the
\* read-only region).
DropReadOnlySteps(backend) ==
    IF backend = "linux"
    THEN <<"mprotect_write", "zeroize", "munmap">>
    ELSE IF backend = "windows"
    THEN <<"VirtualProtect_readwrite", "zeroize", "VirtualUnlock", "VirtualFree">>
    ELSE <<"mprotect_write", "zeroize", "madvise_dodump", "munlock", "munmap">>

\* SecretAllocator::dealloc of the selected back end: the release of the region,
\* restoring write permission first when the region is read-only.
dealloc(backend, m) ==
    IF m.perm = "ro" THEN DropReadOnlySteps(backend) ELSE DropMutSteps(backend)

\* One step on a region m.  e is what the environment answers: e.backend the
\* selected allocator, e.glue the drop glue of T, e.mprotect / e.munmap whether
\* the OS call succeeds.  A faulted region takes no more steps.  Per region,
\* log is the steps taken, dtors and deallocs count the destructions of the
\* value and the dealloc calls, oserrs the OS calls that returned an error.
RECURSIVE Step(_, _, _), Run(_, _, _)
Step(m, s, e) ==
    IF m.fault THEN m
    ELSE LET l == [m EXCEPT !.log = Append(m.log, s)] IN
    CASE s = "drop_in_place" ->
            \* ptr::drop_in_place(pointer): runs T's destructor on the cells of T
            IF e.glue = "writes"
            THEN IF l.mapped /\ l.perm = "rw"
                 THEN [l EXCEPT !.dtors = @ + 1,
                                !.bytes = [c \in 1..l.len |-> IF c <= SizeOfT THEN 0 ELSE @[c]]]
                 ELSE [l EXCEPT !.fault = TRUE]
            ELSE [l EXCEPT !.dtors = @ + 1]
      [] s = "dealloc" ->
            Run([l EXCEPT !.deallocs = @ + 1], dealloc(e.backend, l), e)
      [] s \in {"mprotect_write", "VirtualProtect_readwrite"} ->
            IF e.mprotect /\ l.mapped THEN [l EXCEPT !.perm = "rw"]
            ELSE [l EXCEPT !.oserrs = @ + 1]
      [] s = "zeroize" ->
            IF l.mapped /\ l.perm = "rw"
            THEN [l EXCEPT !.bytes = ZeroBytes(l.len)]
            ELSE [l EXCEPT !.fault = TRUE]
      [] s \in {"munmap", "VirtualFree"} ->
            IF e.munmap /\ l.mapped THEN [l EXCEPT !.mapped = FALSE, !.perm = "none"]
            ELSE [l EXCEPT !.oserrs = @ + 1]
      [] OTHER -> l   \* madvise_dodump, munlock, VirtualUnlock: no effect on cells
                      \* or protection

Run(m, steps, e) ==
    IF steps = <<>> THEN m ELSE Run(Step(m, Head(steps), e), Tail(steps), e)

\* ---------------------------------------------------------- allocator
\* platform_secret_allocator: OnceLock::get_or_init.  probe is the answer of the
\* memfd_secret system call at the moment of the call (TRUE: a descriptor).
platform_secret_allocator(cur, probe) ==
    IF cur # "uninit" THEN cur
    ELSE IF probe THEN "linux" ELSE "unix"

\* SecretAllocator::alloc on success: a region of the page-aligned layout size.
alloc(size, lalign) == with_length(aligned_layout_size(size, lalign))

\* SecretAllocator::make_read_only / make_writable: the protection change of
\* the whole region; on failure the region keeps the protection it had.
make_read_only(m, ok) == IF ok /\ m.mapped THEN [m EXCEPT !.perm = "ro"] ELSE m
make_writable(m, ok)  == IF ok /\ m.mapped THEN [m EXCEPT !.perm = "rw"] ELSE m

\* --------------------------------------------------------- SecretBox
NoBox == [st |-> "unused", L |-> "Unlocked", pointer |-> 0, glue |-> "none"]

World(bx, rg) == [boxes |-> bx, regions |-> rg]

\* ptr::write(p as *mut T, value): a store to the cells of T.
ptr_write(m, v) ==
    IF m.mapped /\ m.perm = "rw"
    THEN [m EXCEPT !.bytes = [c \in 1..m.len |-> IF c <= SizeOfT THEN v ELSE @[c]]]
    ELSE [m EXCEPT !.fault = TRUE]

\* &*self.pointer.as_ptr(): a load of the cells of T.
ptr_read(m) == IF m.mapped /\ m.len >= SizeOfT THEN m.bytes[1] ELSE NoVal

\* Mutant of new: the value is never stored into the fresh region.
new_without_ptr_write(w, j, r, v, glue) ==
    World([w.boxes EXCEPT ![j] = [st |-> "live", L |-> "Unlocked", pointer |-> r, glue |-> glue]],
          [w.regions EXCEPT ![r] = alloc(SizeOfT, AlignOfT)])

\* A constructor whose allocation hands out the region handed out first.
new_reuses_region(w, j, r, v, glue) ==
    World([w.boxes EXCEPT ![j] = [st |-> "live", L |-> "Unlocked", pointer |-> 1, glue |-> glue]],
          [w.regions EXCEPT ![1] = ptr_write(alloc(SizeOfT, AlignOfT), v)])

\* A constructor that builds the container in the Locked state.
new_as_locked(w, j, r, v, glue) ==
    World([w.boxes EXCEPT ![j] = [st |-> "live", L |-> "Locked", pointer |-> r, glue |-> glue]],
          [w.regions EXCEPT ![r] = ptr_write(alloc(SizeOfT, AlignOfT), v)])

\* SecretBox::new after a successful alloc: box j owns the fresh region r.
new(w, j, r, v, glue) ==
    World([w.boxes EXCEPT ![j] = [st |-> "live", L |-> "Unlocked", pointer |-> r, glue |-> glue]],
          [w.regions EXCEPT ![r] = ptr_write(alloc(SizeOfT, AlignOfT), v)])

\* The destructor of box i as it runs when every OS call of the release succeeds.
ScopeEndDrop(w, i) ==
    LET b == w.boxes[i]
        e == [backend |-> "linux", glue |-> b.glue, mprotect |-> TRUE, munmap |-> TRUE]
    IN  World([w.boxes EXCEPT ![i].st = "dropped"],
              [w.regions EXCEPT ![b.pointer] = Run(@, <<"drop_in_place", "dealloc">>, e)])

\* Mutant of lock: the result of make_read_only is ignored.
lock_ignores_result(w, i, j, ok) ==
    LET p  == w.boxes[i].pointer
        rg == [w.regions EXCEPT ![p] = make_read_only(@, ok)]
    IN  World([w.boxes EXCEPT ![i].st = "forgotten",
                              ![j] = [st |-> "live", L |-> "Locked", pointer |-> p,
                                      glue |-> w.boxes[i].glue]], rg)

\* Mutant of lock: on failure self is destructed instead of being handed back.
lock_err_drops_self(w, i, j, ok) ==
    LET p  == w.boxes[i].pointer
        rg == [w.regions EXCEPT ![p] = make_read_only(@, ok)]
    IN  IF ok
        THEN World([w.boxes EXCEPT ![i].st = "forgotten",
                                   ![j] = [st |-> "live", L |-> "Locked", pointer |-> p,
                                           glue |-> w.boxes[i].glue]], rg)
        ELSE ScopeEndDrop(World(w.boxes, rg), i)

\* Mutant of lock: the pointer is copied out of self and self stays alive.
lock_keeps_self(w, i, j, ok) ==
    LET p  == w.boxes[i].pointer
        rg == [w.regions EXCEPT ![p] = make_read_only(@, ok)]
    IN  IF ok
        THEN World([w.boxes EXCEPT ![j] = [st |-> "live", L |-> "Locked", pointer |-> p,
                                           glue |-> w.boxes[i].glue]], rg)
        ELSE World(w.boxes, rg)

\* Mutant of lock: self is not wrapped in ManuallyDrop, so its destructor
\* runs when lock returns the new container.
lock_without_manually_drop(w, i, j, ok) ==
    LET p  == w.boxes[i].pointer
        rg == [w.regions EXCEPT ![p] = make_read_only(@, ok)]
    IN  IF ok
        THEN ScopeEndDrop(World([w.boxes EXCEPT ![j] = [st |-> "live", L |-> "Locked",
                                   pointer |-> p, glue |-> w.boxes[i].glue]], rg), i)
        ELSE World(w.boxes, rg)

\* SecretBox::lock: i is self, j the identity of the Locked value built on success.
lock(w, i, j, ok) ==
    LET p  == w.boxes[i].pointer
        rg == [w.regions EXCEPT ![p] = make_read_only(@, ok)]
    IN  IF ok
        THEN World([w.boxes EXCEPT ![i].st = "forgotten",   \* ManuallyDrop::new(self)
                                   ![j] = [st |-> "live", L |-> "Locked", pointer |-> p,
                                           glue |-> w.boxes[i].glue]], rg)
        ELSE World(w.boxes, rg)                              \* Err(self)

\* Mutant of unlock: on failure self is destructed instead of being handed back.
unlock_err_drops_self(w, i, j, ok) ==
    LET p  == w.boxes[i].pointer
        rg == [w.regions EXCEPT ![p] = make_writable(@, ok)]
    IN  IF ok
        THEN World([w.boxes EXCEPT ![i].st = "forgotten",
                                   ![j] = [st |-> "live", L |-> "Unlocked", pointer |-> p,
                                           glue |-> w.boxes[i].glue]], rg)
        ELSE ScopeEndDrop(World(w.boxes, rg), i)

\* Mutant of unlock: self is not wrapped in ManuallyDrop, so its destructor
\* runs when unlock returns the new container.
unlock_without_manually_drop(w, i, j, ok) ==
    LET p  == w.boxes[i].pointer
        rg == [w.regions EXCEPT ![p] = make_writable(@, ok)]
    IN  IF ok
        THEN ScopeEndDrop(World([w.boxes EXCEPT ![j] = [st |-> "live", L |-> "Unlocked",
                                   pointer |-> p, glue |-> w.boxes[i].glue]], rg), i)
        ELSE World(w.boxes, rg)

\* SecretBox::unlock
unlock(w, i, j, ok) ==
    LET p  == w.boxes[i].pointer
        rg == [w.regions EXCEPT ![p] = make_writable(@, ok)]
    IN  IF ok
        THEN World([w.boxes EXCEPT ![i].st = "forgotten",
                                   ![j] = [st |-> "live", L |-> "Unlocked", pointer |-> p,
                                           glue |-> w.boxes[i].glue]], rg)
        ELSE World(w.boxes, rg)

\* impl Deref / AsRef for SecretBox<T, L>: every L.
has_deref(L) == L \in {"Unlocked", "Locked"}

\* Mutant of has_deref_mut: DerefMut implemented for every L.
has_deref_mut_any(L) == L \in {"Unlocked", "Locked"}

\* impl DerefMut / AsMut for SecretBox<T, Unlocked>: Unlocked only.
has_deref_mut(L) == L = "Unlocked"

deref(w, i) == ptr_read(w.regions[w.boxes[i].pointer])

\* A destructor that calls dealloc again after the first call.
SecretBoxDropSteps_retry(L) == <<"drop_in_place", "dealloc", "dealloc">>

\* impl Drop for SecretBox<T, L>: the value is dropped in place, then the
\* region is handed to dealloc; the same two steps in both states.
SecretBoxDropSteps(L) == <<"drop_in_place", "dealloc">>

drop(w, i, e) ==
    LET b == w.boxes[i] IN
    World([w.boxes EXCEPT ![i].st = "dropped"],
          [w.regions EXCEPT ![b.pointer] = Run(@, SecretBoxDropSteps(b.L), e)])

\* ------------------------------------------------- provider regions
Backends == {"linux", "unix", "windows"}

\* isize::MAX, which is also off_t::MAX as usize on a 64-bit target.
IsizeMax == 2 ^ (WordBits - 1) - 1

\* What the OS answers to the calls of one with_length: whether memfd_secret,
\* ftruncate, the mapping (mmap, VirtualAlloc), the page lock (mlock,
\* VirtualLock) and the core-dump advice (madvise) succeed, and whether the
\* calls that undo a step (close, munlock, munmap, VirtualFree) leave the
\* thread's last-error value changed.
OsAnswers == [memfd : Bools, truncate : Bools, map : Bools, lock : Bools, advise : Bools,
              clobber : Bools]

\* The OS resources of one provider call.  log: the OS calls made, in order;
\* fd: the memfd_secret descriptor ("none", "open", "closed"); closes: close
\* calls made; errno: the thread's last-error value (errno, GetLastError),
\* named after the call that set it, or the code the probe answered; failed:
\* the call that returned an error; error: the error the call returns to its
\* caller; addr: the address the mapping call returned; mapped, locked,
\* nodump: what the call holds.
NoOs == [op |-> "none", backend |-> "none", len |-> 0, res |-> "none", log |-> <<>>,
         fd |-> "none", closes |-> 0, errno |-> "none", failed |-> "none",
         error |-> "none", addr |-> 0,
         mapped |-> FALSE, locked |-> FALSE, nodump |-> FALSE]

\* The address the OS gives a new mapping: the start of a page, not null.
BaseAddr == PageSize

\* One OS call that succeeded, and what it does to the resources.  Unmapping
\* or freeing a range also drops its page locks and its advice.
Sys(o, c) ==
    LET l == [o EXCEPT !.log = Append(o.log, c)] IN
    CASE c = "memfd_secret" -> [l EXCEPT !.fd = "open"]
      [] c = "close"        -> [l EXCEPT !.fd = IF @ = "open" THEN "closed" ELSE @,
                                         !.closes = @ + 1]
      [] c \in {"mmap", "VirtualAlloc"}   -> [l EXCEPT !.mapped = TRUE, !.addr = BaseAddr]
      [] c \in {"mlock", "VirtualLock"}   -> [l EXCEPT !.locked = TRUE]
      [] c = "madvise_dontdump"           -> [l EXCEPT !.nodump = TRUE]
      [] c = "munlock"                    -> [l EXCEPT !.locked = FALSE]
      [] c \in {"munmap", "VirtualFree"}  ->
            [l EXCEPT !.mapped = FALSE, !.locked = FALSE, !.nodump = FALSE]
      [] OTHER -> l

\* One OS call that returned an error: it is made, sets the last-error value
\* and changes nothing else.
SysErr(o, c) == [o EXCEPT !.log = Append(o.log, c), !.errno = c, !.failed = c]

\* A call that undoes a step: it does its work, and leaves the last-error
\* value either as it was or set by itself.
Cleanup(o, c, a) == IF a.clobber THEN [Sys(o, c) EXCEPT !.errno = c] ELSE Sys(o, c)

\* Err(io::Error::last_os_error()): the error is the last-error value at the
\* moment it is read.
LastOsError(o) == [o EXCEPT !.res = "Err", !.error = o.errno]

\* Err(io::Error::new(io::ErrorKind::InvalidInput, ..))
InvalidInput(o) == [o EXCEPT !.res = "Err", !.error = "InvalidInput"]

RECURSIVE SysAll(_, _)
SysAll(o, cs) == IF cs = <<>> THEN o ELSE SysAll(Sys(o, Head(cs)), Tail(cs))

Returns(o, res) == [o EXCEPT !.res = res]

Entered(backend, len) ==
    [NoOs EXCEPT !.op = "with_length", !.backend = backend, !.len = len]

\* mmap of a zero-length range is refused by the kernel (EINVAL).
MapOk(len, a) == a.map /\ len > 0

\* with_length that returns the mlock error without unmapping.
unix_with_length_no_undo(len, a) ==
    LET o == Entered("unix", len) IN
    IF ~(len <= IsizeMax) THEN Returns(o, "panic")
    ELSE IF ~MapOk(len, a) THEN LastOsError(SysErr(o, "mmap"))
    ELSE LET m == Sys(o, "mmap") IN
    IF ~a.lock
    THEN LastOsError(SysErr(m, "mlock"))
    ELSE LET k == Sys(m, "mlock") IN
    IF ~a.advise
    THEN LastOsError(Cleanup(Cleanup(SysErr(k, "madvise_dontdump"), "munlock", a), "munmap", a))
    ELSE Returns(Sys(k, "madvise_dontdump"), "Ok")

\* UnixSecretMemoryMut::with_length
unix_with_length(len, a) ==
    LET o == Entered("unix", len) IN
    IF ~(len <= IsizeMax) THEN Returns(o, "panic")
    ELSE IF ~MapOk(len, a) THEN LastOsError(SysErr(o, "mmap"))
    ELSE LET m == Sys(o, "mmap") IN
    IF ~a.lock
    THEN LastOsError(Cleanup(SysErr(m, "mlock"), "munmap", a))
    ELSE LET k == Sys(m, "mlock") IN
    IF ~a.advise
    THEN LastOsError(Cleanup(Cleanup(SysErr(k, "madvise_dontdump"), "munlock", a), "munmap", a))
    ELSE Returns(Sys(k, "madvise_dontdump"), "Ok")

\* with_length that does not look at the result of VirtualLock.
windows_with_length_lock_unchecked(len, a) ==
    LET o == Entered("windows", len) IN
    IF ~(len > 0 /\ len <= IsizeMax) THEN InvalidInput(o)
    ELSE IF ~a.map THEN LastOsError(SysErr(o, "VirtualAlloc"))
    ELSE LET m == Sys(o, "VirtualAlloc") IN
    Returns(IF a.lock THEN Sys(m, "VirtualLock") ELSE SysErr(m, "VirtualLock"), "Ok")

\* with_length that hands every length to VirtualAlloc.
windows_with_length_unchecked_len(len, a) ==
    LET o == Entered("windows", len) IN
    IF ~(a.map /\ len > 0) THEN LastOsError(SysErr(o, "VirtualAlloc"))
    ELSE LET m == Sys(o, "VirtualAlloc") IN
    IF ~a.lock
    THEN LastOsError(Cleanup(SysErr(m, "VirtualLock"), "VirtualFree", a))
    ELSE Returns(Sys(m, "VirtualLock"), "Ok")

\* WindowsSecretMemoryMut::with_length
windows_with_length(len, a) ==
    LET o == Entered("windows", len) IN
    IF ~(len > 0 /\ len <= IsizeMax) THEN InvalidInput(o)
    ELSE IF ~a.map THEN LastOsError(SysErr(o, "VirtualAlloc"))
    ELSE LET m == Sys(o, "VirtualAlloc") IN
    IF ~a.lock
    THEN LastOsError(Cleanup(SysErr(m, "VirtualLock"), "VirtualFree", a))
    ELSE Returns(Sys(m, "VirtualLock"), "Ok")

\* with_length that returns the ftruncate error without closing the descriptor.
linux_with_length_leaks_fd(len, a) ==
    LET o == Entered("linux", len) IN
    IF ~(len <= IsizeMax) THEN Returns(o, "panic")
    ELSE IF ~a.memfd THEN LastOsError(SysErr(o, "memfd_secret"))
    ELSE LET f == Sys(o, "memfd_secret") IN
    IF ~a.truncate
    THEN LastOsError(SysErr(f, "ftruncate"))
    ELSE LET t == Sys(f, "ftruncate") IN
    IF ~MapOk(len, a)
    THEN LastOsError(Cleanup(SysErr(t, "mmap"), "close", a))
    ELSE Returns(Cleanup(Sys(t, "mmap"), "close", a), "Ok")

\* LinuxSecretMemoryMut::with_length
linux_with_length(len, a) ==
    LET o == Entered("linux", len) IN
    IF ~(len <= IsizeMax) THEN Returns(o, "panic")
    ELSE IF ~a.memfd THEN LastOsError(SysErr(o, "memfd_secret"))
    ELSE LET f == Sys(o, "memfd_secret") IN
    IF ~a.truncate
    THEN LastOsError(Cleanup(SysErr(f, "ftruncate"), "close", a))
    ELSE LET t == Sys(f, "ftruncate") IN
    IF ~MapOk(len, a)
    THEN LastOsError(Cleanup(SysErr(t, "mmap"), "close", a))
    ELSE Returns(Cleanup(Sys(t, "mmap"), "close", a), "Ok")

\* What the memfd_secret system call of a probe answers: a descriptor, or -1
\* with errno ENOSYS (the kernel has no memfd_secret, or it is disabled) or
\* EMFILE (the kernel has it; the process is at its descriptor limit).
ProbeAnswers == {"fd", "ENOSYS", "EMFILE"}

Supported(ans) == ans # "ENOSYS"

\* io::Error::last_os_error().kind() for the errno of the failed call.
ErrorKind(errno) == IF errno = "ENOSYS" THEN "Unsupported" ELSE "Uncategorized"

\* The memfd_secret call of a probe, with its answer.
ProbeCall(o, ans) ==
    IF ans = "fd" THEN Sys(o, "memfd_secret")
    ELSE [SysErr(o, "memfd_secret") EXCEPT !.errno = ans]

\* ffi::unix::memfd_secret_available
memfd_secret_available(ans) ==
    LET o == ProbeCall([NoOs EXCEPT !.op = "memfd_secret_available"], ans) IN
    IF ans # "fd"
    THEN Returns(o, IF ErrorKind(o.errno) = "Unsupported" THEN "true" ELSE "false")
    ELSE Returns(Sys(o, "close"), "true")

\* The closure of platform_secret_allocator on a Unix target: the probe and the
\* construction of the back end.
select_backend(ans) ==
    LET o == ProbeCall([NoOs EXCEPT !.op = "platform_secret_allocator"], ans) IN
    IF ans # "fd"
    THEN Returns(o, "unix")
    ELSE Returns(Sys(o, "close"), "linux")

\* ffi::unix::mmap_memfd_secret
mmap_memfd_secret(len, a) ==
    LET o == [NoOs EXCEPT !.op = "mmap_memfd_secret", !.backend = "linux", !.len = len] IN
    IF ~a.memfd THEN LastOsError(SysErr(o, "memfd_secret"))
    ELSE LET f == Sys(o, "memfd_secret")
             r == IF ~a.truncate THEN LastOsError(SysErr(f, "ftruncate"))
                  ELSE IF ~MapOk(len, a) THEN LastOsError(SysErr(Sys(f, "ftruncate"), "mmap"))
                  ELSE Returns(Sys(Sys(f, "ftruncate"), "mmap"), "Ok")
         IN  Cleanup(r, "close", a)

backend_with_length(backend, len, a) ==
    CASE backend = "linux"   -> linux_with_length(len, a)
      [] backend = "unix"    -> unix_with_length(len, a)
      [] backend = "windows" -> windows_with_length(len, a)

\* A provider region: kind is "none", "mut" (SecretMemoryMut), "readonly"
\* (SecretMemory) or "dropped"; mmap its base address; reg its cells; held the
\* OS resources it holds; wrote, per cell, the last value stored through as_mut.
NoMem == [kind |-> "none", backend |-> "none", mmap |-> 0, reg |-> NoRegion,
          held |-> NoOs, wrote |-> <<>>]

\* What a region record holds of its resources once the steps in its log ran.
Released(h, reg) ==
    LET done(names) == \E k \in 1..Len(reg.log) : reg.log[k] \in names IN
    [h EXCEPT !.mapped = reg.mapped,
              !.locked = @ /\ reg.mapped /\ ~done({"munlock", "VirtualUnlock"}),
              !.nodump = @ /\ reg.mapped /\ ~done({"madvise_dodump"})]

\* as_mut()[c - 1] = v: a store into cell c of the slice over the mapping.
slice_store(r, c, v) ==
    IF r.mapped /\ r.perm = "rw" THEN [r EXCEPT !.bytes[c] = v] ELSE [r EXCEPT !.fault = TRUE]

\* as_ref()[c - 1]: a load from cell c of the slice over the mapping.
slice_load(r, c) == IF r.mapped THEN r.bytes[c] ELSE NoVal

\* A conversion that hands out a fresh zeroed mapping in place of the region.
try_from_remapped(m, ok, e) ==
    IF ok
    THEN [m EXCEPT !.kind = "readonly", !.mmap = BaseAddr + PageSize,
                   !.reg = [@ EXCEPT !.perm = "ro", !.bytes = ZeroBytes(m.reg.len),
                                     !.log = Append(@, "mprotect_read")]]
    ELSE LET r == Run([m.reg EXCEPT !.log = Append(@, "mprotect_read"), !.oserrs = @ + 1],
                      DropReadOnlySteps(m.backend), e)
         IN  [m EXCEPT !.kind = "dropped", !.reg = r, !.held = Released(@, r)]

\* A conversion that does not wrap the consumed value in ManuallyDrop: its
\* destructor runs too when try_from returns.
try_from_without_manually_drop(m, ok, e) ==
    IF ok
    THEN LET r == Run([m.reg EXCEPT !.perm = "ro", !.log = Append(@, "mprotect_read")],
                      DropMutSteps(m.backend), e)
         IN  [m EXCEPT !.kind = "readonly", !.reg = r, !.held = Released(@, r)]
    ELSE LET r == Run([m.reg EXCEPT !.log = Append(@, "mprotect_read"), !.oserrs = @ + 1],
                      DropReadOnlySteps(m.backend) \o DropMutSteps(m.backend), e)
         IN  [m EXCEPT !.kind = "dropped", !.reg = r, !.held = Released(@, r)]

\* TryFrom<SecretMemoryMut> for the read-only region.  ok: whether the
\* protection change succeeds; when it fails the new value is dropped.
try_from(m, ok, e) ==
    IF ok
    THEN [m EXCEPT !.kind = "readonly",
                   !.reg = [@ EXCEPT !.perm = "ro", !.log = Append(@, "mprotect_read")]]
    ELSE LET r == Run([m.reg EXCEPT !.log = Append(@, "mprotect_read"), !.oserrs = @ + 1],
                      DropReadOnlySteps(m.backend), e)
         IN  [m EXCEPT !.kind = "dropped", !.reg = r, !.held = Released(@, r)]

\* The region goes out of scope: Drop for the value it is.
drop_mem(m, e) ==
    LET r == Run(m.reg, IF m.kind = "mut" THEN DropMutSteps(m.backend)
                        ELSE DropReadOnlySteps(m.backend), e)
    IN  [m EXCEPT !.kind = "dropped", !.reg = r, !.held = Released(@, r)]

NoCalc == [size |-> 0, align |-> 0, out |-> NoVal]

ProviderIdle ==
    /\ mem = NoMem
    /\ os = NoOs
    /\ calc = NoCalc

\* --------------------------------------------------- OnceLock statics
Threads == 1..MaxThreads
Cells   == {"INSTANCE", "PAGE_SIZE"}

\* A OnceLock: state is "incomplete", "running" (one thread is in the
\* closure) or "complete"; runs counts the executions of the closure; seen is
\* every value a call has returned.
\* Option<T>: the value of a cell that may be empty, what a call has returned.
None    == <<>>
Some(v) == <<v>>

NoCell == [state |-> "incomplete", value |-> None, runs |-> 0, seen |-> {}]

NoThread == [pc |-> "idle", cell |-> "none", got |-> None]

\* get_or_init that lets every thread finding the cell not yet complete run
\* the closure.
get_or_init_racy(state) ==
    IF state = "complete" THEN "return" ELSE "init"

\* get_or_init that runs the closure on every call.
get_or_init_uncached(state) ==
    IF state = "running" THEN "wait" ELSE "init"

\* OnceLock::get_or_init, for a thread finding the cell in this state: it
\* returns the stored value, or runs the closure, or waits for the thread that
\* is running it.
get_or_init(state) ==
    CASE state = "complete"   -> "return"
      [] state = "incomplete" -> "init"
      [] state = "running"    -> "wait"

\* The closures: the selection of the back end, and the page size query.
Closure(c, ans) == IF c = "INSTANCE" THEN select_backend(ans).res ELSE PageSize

OnceIdle ==
    /\ once = [c \in Cells |-> NoCell]
    /\ threads = [t \in Threads |-> NoThread]

ContainerIdle ==
    /\ allocator = "uninit"
    /\ boxes = [i \in BoxIds |-> NoBox]
    /\ regions = [r \in RegIds |-> NoRegion]
    /\ nboxes = 0
    /\ nregions = 0
    /\ crashed = FALSE
    /\ ret = [op |-> "none", res |-> "none", box |-> 0, val |-> NoVal]
    /\ held = [i \in BoxIds |-> NoVal]
    /\ expect = [i \in BoxIds |-> NoVal]

\* ------------------------------------------------------------ actions
Init ==
    /\ ContainerIdle
    /\ ProviderIdle
    /\ OnceIdle

Now == World(boxes, regions)

Live(i) == boxes[i].st = "live"

\* What the owner of box i can call: the receiver types of the methods.
CanLock(i)   == ~crashed /\ Live(i) /\ boxes[i].L = "Unlocked"
CanUnlock(i) == ~crashed /\ Live(i) /\ boxes[i].L = "Locked"
CanRead(i)   == ~crashed /\ Live(i) /\ has_deref(boxes[i].L)
CanWrite(i)  == ~crashed /\ Live(i) /\ has_deref_mut(boxes[i].L)
CanDrop(i)   == ~crashed /\ Live(i)

\* A new that hands the alloc error back to its caller as a value.
expect_alloc_returns_err(ok) == IF ok THEN "Ok" ELSE "Err"

\* Result::expect("Unable to allocate secret memory") on the result of alloc:
\* the pointer, or a panic that unwinds out of new.
expect_alloc(ok) == IF ok THEN "Ok" ELSE "panic"

\* SecretBox::new(value).  ok: whether alloc succeeds; a failed alloc panics
\* in expect("Unable to allocate secret memory") and builds nothing.
New(v, glue, probe, ok) ==
    /\ ~crashed
    /\ nboxes < MaxBoxes
    /\ nregions < MaxRegions
    /\ allocator' = platform_secret_allocator(allocator, probe)
    /\ IF expect_alloc(ok) = "Ok"
       THEN LET w == new(Now, nboxes + 1, nregions + 1, v, glue) IN
            /\ boxes' = w.boxes
            /\ regions' = w.regions
            /\ nboxes' = nboxes + 1
            /\ nregions' = nregions + 1
            /\ ret' = [op |-> "new", res |-> "Ok", box |-> nboxes + 1, val |-> v]
            /\ expect' = [expect EXCEPT ![nboxes + 1] = v]
       ELSE /\ ret' = [op |-> "new", res |-> expect_alloc(ok), box |-> 0, val |-> v]
            /\ UNCHANGED <<boxes, regions, nboxes, nregions, expect>>
    /\ UNCHANGED <<crashed, held>>

\* T::default() of the integer payload.
DefaultValue == 0

\* SecretBox::default(): SecretBox::new(T::default()).
Default(glue, probe, ok) == New(DefaultValue, glue, probe, ok)

\* self.lock().  ok: whether make_read_only succeeds.
Lock(i, probe, ok) ==
    /\ CanLock(i)
    /\ ok => nboxes < MaxBoxes
    /\ allocator' = platform_secret_allocator(allocator, probe)
    /\ LET w == lock(Now, i, nboxes + 1, ok) IN
       /\ boxes' = w.boxes
       /\ regions' = w.regions
       /\ crashed' = (crashed \/ \E r \in RegIds : w.regions[r].fault)
    /\ nboxes' = IF ok THEN nboxes + 1 ELSE nboxes
    /\ ret' = [op |-> "lock", res |-> IF ok THEN "Ok" ELSE "Err",
               box |-> IF ok THEN nboxes + 1 ELSE i, val |-> deref(Now, i)]
    /\ held' = IF ok THEN [held EXCEPT ![nboxes + 1] = deref(Now, i)] ELSE held
    /\ expect' = IF ok THEN [expect EXCEPT ![nboxes + 1] = expect[i]] ELSE expect
    /\ UNCHANGED nregions

\* self.unlock().  ok: whether make_writable succeeds.
Unlock(i, probe, ok) ==
    /\ CanUnlock(i)
    /\ ok => nboxes < MaxBoxes
    /\ allocator' = platform_secret_allocator(allocator, probe)
    /\ LET w == unlock(Now, i, nboxes + 1, ok) IN
       /\ boxes' = w.boxes
       /\ regions' = w.regions
       /\ crashed' = (crashed \/ \E r \in RegIds : w.regions[r].fault)
    /\ nboxes' = IF ok THEN nboxes + 1 ELSE nboxes
    /\ ret' = [op |-> "unlock", res |-> IF ok THEN "Ok" ELSE "Err",
               box |-> IF ok THEN nboxes + 1 ELSE i, val |-> deref(Now, i)]
    /\ held' = IF ok THEN [held EXCEPT ![nboxes + 1] = held[i]] ELSE held
    /\ expect' = IF ok THEN [expect EXCEPT ![nboxes + 1] = expect[i]] ELSE expect
    /\ UNCHANGED nregions

\* *self: a read through Deref / AsRef.
Read(i) ==
    /\ CanRead(i)
    /\ ret' = [op |-> "deref", res |-> "Ok", box |-> i, val |-> deref(Now, i)]
    /\ UNCHANGED <<allocator, boxes, regions, nboxes, nregions, crashed, held, expect>>

\* *self = v: a store through DerefMut / AsMut.
Write(i, v) ==
    /\ CanWrite(i)
    /\ regions' = [regions EXCEPT ![boxes[i].pointer] = ptr_write(@, v)]
    /\ crashed' = regions'[boxes[i].pointer].fault
    /\ ret' = [op |-> "deref_mut", res |-> IF crashed' THEN "fault" ELSE "Ok",
               box |-> i, val |-> v]
    /\ expect' = [expect EXCEPT ![i] = v]
    /\ held' = [held EXCEPT ![i] = NoVal]
    /\ UNCHANGED <<allocator, boxes, nboxes, nregions>>

\* The container goes out of scope.  mprotect, munmap: whether the OS calls
\* made by the release succeed.
Drop(i, probe, mprotect, munmap) ==
    /\ CanDrop(i)
    /\ allocator' = platform_secret_allocator(allocator, probe)
    /\ LET e == [backend |-> allocator', glue |-> boxes[i].glue,
                 mprotect |-> mprotect, munmap |-> munmap]
           w == drop(Now, i, e)
       IN  /\ boxes' = w.boxes
           /\ regions' = w.regions
           /\ crashed' = \E r \in RegIds : w.regions[r].fault
           /\ ret' = [op |-> "drop", res |-> IF crashed' THEN "fault" ELSE "Ok",
                      box |-> i, val |-> deref(Now, i)]
    /\ UNCHANGED <<nboxes, nregions, held, expect>>

\* The memfd_secret probe is made only by the call that initializes the OnceLock.
Probes == IF allocator = "uninit" THEN Bools ELSE {FALSE}

providervars == <<mem, os, calc>>

oncevars == <<once, threads>>

Next ==
    /\ UNCHANGED providervars
    /\ UNCHANGED oncevars
    /\ \/ \E v \in Values, glue \in Glues, probe \in Probes, ok \in Bools : New(v, glue, probe, ok)
       \/ \E glue \in Glues, probe \in Probes, ok \in Bools : Default(glue, probe, ok)
       \/ \E i \in BoxIds, probe \in Probes, ok \in Bools : Lock(i, probe, ok)
       \/ \E i \in BoxIds, probe \in Probes, ok \in Bools : Unlock(i, probe, ok)
       \/ \E i \in BoxIds : Read(i)
       \/ \E i \in BoxIds, v \in Values : Write(i, v)
       \/ \E i \in BoxIds, probe \in Probes, mprotect \in Bools, munmap \in Bools :
             Drop(i, probe, mprotect, munmap)

Spec == Init /\ [][Next]_vars

\* ------------------------------------------- provider region actions
\* Lengths asked of with_length: none, one cell, a page, the largest length
\* accepted and the first one refused.
Lens == {0, 1, PageSize, IsizeMax, IsizeMax + 1}

MemLive == mem.kind \in {"mut", "readonly"} /\ ~mem.reg.fault

\* <Backend>SecretMemoryMut::with_length(len)
WithLength(backend, len, a) ==
    /\ mem.kind = "none"
    /\ LET o == backend_with_length(backend, len, a) IN
       /\ os' = o
       /\ mem' = IF o.res = "Ok"
                 THEN [kind |-> "mut", backend |-> backend, mmap |-> o.addr,
                       reg |-> with_length(len), held |-> o, wrote |-> ZeroBytes(len)]
                 ELSE mem
    /\ UNCHANGED calc

\* <Backend>SecretMemory::try_from(region)
TryFrom(ok, mprotect, munmap) ==
    /\ MemLive /\ mem.kind = "mut"
    /\ mem' = try_from(mem, ok, [backend |-> mem.backend, glue |-> "none",
                                 mprotect |-> mprotect, munmap |-> munmap])
    /\ os' = [NoOs EXCEPT !.op = "try_from", !.backend = mem.backend, !.len = mem.reg.len,
                          !.res = IF ok THEN "Ok" ELSE "Err"]
    /\ UNCHANGED calc

\* region.as_mut()[c - 1] = v
MemWrite(c, v) ==
    /\ MemLive /\ mem.kind = "mut"
    /\ c \in 1..mem.reg.len
    /\ mem' = [mem EXCEPT !.reg = slice_store(@, c, v), !.wrote[c] = v]
    /\ os' = [NoOs EXCEPT !.op = "as_mut", !.backend = mem.backend, !.len = mem.reg.len,
                          !.res = "Ok"]
    /\ UNCHANGED calc

\* The region goes out of scope.
DropMem(mprotect, munmap) ==
    /\ MemLive
    /\ mem' = drop_mem(mem, [backend |-> mem.backend, glue |-> "none",
                             mprotect |-> mprotect, munmap |-> munmap])
    /\ os' = [NoOs EXCEPT !.op = "drop", !.backend = mem.backend, !.len = mem.reg.len,
                          !.res = IF mem'.reg.fault THEN "fault" ELSE "Ok"]
    /\ UNCHANGED calc

\* ffi::unix::mmap_memfd_secret(len, prot, flags); the mapping it returns is
\* not followed further.
MmapMemfdSecret(len, a) ==
    /\ os' = mmap_memfd_secret(len, a)
    /\ UNCHANGED <<allocator, mem, calc>>

\* ffi::unix::memfd_secret_available()
MemfdSecretAvailable(ans) ==
    /\ os' = memfd_secret_available(ans)
    /\ UNCHANGED <<allocator, mem, calc>>

\* platform_secret_allocator() on a Unix target, called by one thread: the
\* closure runs when INSTANCE is not yet initialized.
PlatformSecretAllocator(ans) ==
    /\ allocator' = platform_secret_allocator(allocator, ans = "fd")
    /\ os' = IF allocator = "uninit" THEN select_backend(ans)
             ELSE [NoOs EXCEPT !.op = "platform_secret_allocator", !.res = allocator]
    /\ UNCHANGED <<mem, calc>>

containervars == <<allocator, boxes, regions, nboxes, nregions, crashed, ret, held, expect>>

boxvars == <<boxes, regions, nboxes, nregions, crashed, ret, held, expect>>

ProviderInit == ContainerIdle /\ ProviderIdle /\ OnceIdle

ProviderNext ==
    /\ UNCHANGED containervars
    /\ UNCHANGED oncevars
    /\ \/ \E backend \in Backends, len \in Lens, a \in OsAnswers : WithLength(backend, len, a)
       \/ \E ok \in Bools, mprotect \in Bools, munmap \in Bools : TryFrom(ok, mprotect, munmap)
       \/ \E c \in {1, mem.reg.len}, v \in Values : MemWrite(c, v)
       \/ \E mprotect \in Bools, munmap \in Bools : DropMem(mprotect, munmap)

ProviderSpec == ProviderInit /\ [][ProviderNext]_vars

\* The calls that make a memfd_secret descriptor: the allocation of the Linux
\* back end, the ffi wrappers and the selection of the allocator.
DescriptorNext ==
    /\ UNCHANGED boxvars
    /\ UNCHANGED oncevars
    /\ \/ /\ \E backend \in Backends, len \in Lens, a \in OsAnswers :
                WithLength(backend, len, a)
          /\ UNCHANGED allocator
       \/ \E len \in Lens, a \in OsAnswers : MmapMemfdSecret(len, a)
       \/ \E ans \in ProbeAnswers : MemfdSecretAvailable(ans)
       \/ \E ans \in IF allocator = "uninit" THEN ProbeAnswers ELSE {"fd"} :
             PlatformSecretAllocator(ans)

DescriptorSpec == ProviderInit /\ [][DescriptorNext]_vars

\* ------------------------------------------------------------- claims
Region(i) == regions[boxes[i].pointer]

Dropped(i) == boxes[i].st = "dropped"

\* Position of the first occurrence of step s in a log, 0 when absent.
Pos(log, s) ==
    IF \E k \in 1..Len(log) : log[k] = s
    THEN CHOOSE k \in 1..Len(log) : log[k] = s /\ \A h \in 1..(k - 1) : log[h] # s
    ELSE 0

Before(log, a, b) == Pos(log, a) > 0 /\ Pos(log, b) > 0 /\ Pos(log, a) < Pos(log, b)

Owners(r) == {i \in BoxIds : Live(i) /\ boxes[i].pointer = r}

\* C1: after any sequence of lock() and unlock() calls, successful or failed,
\* the drop of the container that finally holds the value invokes dealloc
\* exactly once for the region, never zero times and never twice; and a
\* successful lock() or unlock() runs no destructor: while a container is
\* alive its region has seen neither drop_in_place nor dealloc.
C1_DeallocExactlyOnce ==
    /\ \A r \in RegIds : regions[r].deallocs <= 1
    /\ \A i \in BoxIds : Dropped(i) => Region(i).deallocs = 1
    /\ \A i \in BoxIds : Live(i) => Region(i).deallocs = 0 /\ Region(i).dtors = 0

\* C2: once a container has been dropped, Unlocked or Locked, every byte of
\* its region is zero, and the zeroing came before the unmapping, whatever
\* the destructor of the value did.  Stated for the drops in which no OS
\* call returned an error.
C2_ZeroedBeforeRelease ==
    \A i \in BoxIds : (Dropped(i) /\ Region(i).oserrs = 0) =>
        /\ Region(i).bytes = ZeroBytes(Region(i).len)
        /\ Pos(Region(i).log, "munmap") > 0 => Before(Region(i).log, "zeroize", "munmap")

\* C3: a live Unlocked container has a mapped read-write region and a live
\* Locked container a mapped read-only region, in every reachable state, the
\* states after a failed lock() or unlock() included.
C3_PermissionMatchesState ==
    \A i \in BoxIds : Live(i) =>
        /\ Region(i).mapped
        /\ boxes[i].L = "Unlocked" => Region(i).perm = "rw"
        /\ boxes[i].L = "Locked" => Region(i).perm = "ro"

C3_Witness ==
    /\ ret.op = "unlock" /\ ret.res = "Err"
    /\ Live(ret.box) /\ boxes[ret.box].L = "Locked" /\ Region(ret.box).perm = "ro"
    /\ \E j \in BoxIds : boxes[j].st = "forgotten" /\ boxes[j].L = "Unlocked"

\* C4: when make_read_only fails, lock() hands back the original Unlocked
\* container: it is alive, no destructor ran on it, its region is still
\* mapped and writable, it reads the value it held before the call, and
\* writing, locking again and dropping are still possible.
C4_FailedLockReturnsOriginal ==
    (ret.op = "lock" /\ ret.res = "Err") =>
        /\ Live(ret.box) /\ boxes[ret.box].L = "Unlocked"
        /\ Region(ret.box).mapped /\ Region(ret.box).perm = "rw"
        /\ Region(ret.box).dtors = 0 /\ Region(ret.box).deallocs = 0
        /\ deref(Now, ret.box) = ret.val /\ ret.val = expect[ret.box]
        /\ ~crashed
        /\ CanWrite(ret.box) /\ CanLock(ret.box) /\ CanDrop(ret.box)

C4_Witness ==
    /\ ret.op = "lock" /\ ret.res = "Err" /\ ret.val # 0
    /\ Live(ret.box) /\ deref(Now, ret.box) = ret.val

\* C5: when make_writable fails, unlock() hands back the original Locked
\* container: it is alive, no destructor ran on it, its region is still
\* mapped, it reads the same value, and unlocking again and dropping are
\* still possible.
C5_FailedUnlockReturnsOriginal ==
    (ret.op = "unlock" /\ ret.res = "Err") =>
        /\ Live(ret.box) /\ boxes[ret.box].L = "Locked"
        /\ Region(ret.box).mapped
        /\ Region(ret.box).dtors = 0 /\ Region(ret.box).deallocs = 0
        /\ deref(Now, ret.box) = ret.val /\ ret.val = expect[ret.box]
        /\ ~crashed
        /\ CanUnlock(ret.box) /\ CanDrop(ret.box)

C5_Witness ==
    /\ ret.op = "unlock" /\ ret.res = "Err" /\ ret.val # 0
    /\ Live(ret.box) /\ deref(Now, ret.box) = ret.val

\* C6: every store through mutable access is made by an Unlocked container
\* and completes; a Locked container has read access and no mutable access.
C6_NoWriteWhileLocked ==
    /\ ret.op = "deref_mut" => boxes[ret.box].L = "Unlocked" /\ ret.res = "Ok"
    /\ \A i \in BoxIds : Live(i) /\ boxes[i].L = "Locked" =>
          /\ ~CanWrite(i)
          /\ ~crashed => CanRead(i)

C6_Witness ==
    /\ ret.op = "deref" /\ Live(ret.box) /\ boxes[ret.box].L = "Locked"
    /\ ret.val # 0

\* C7: a completed drop of a Locked container restores write permission
\* before it destructs the value in place, and every completed drop
\* destructs the value, then zeroes the region, then unmaps it.
C7_WritableBeforeDestruct ==
    \A i \in BoxIds : (Dropped(i) /\ ~Region(i).fault) =>
        /\ boxes[i].L = "Locked" =>
              Before(Region(i).log, "mprotect_write", "drop_in_place")
        /\ Before(Region(i).log, "drop_in_place", "zeroize")
        /\ Before(Region(i).log, "zeroize", "munmap")

\* C8: every region is owned by at most one live container; after a
\* successful lock() or unlock() the container returned is the only live
\* owner, after a failed one the original is.
C8_SingleOwner ==
    /\ \A r \in RegIds : Cardinality(Owners(r)) <= 1
    /\ ret.op \in {"lock", "unlock"} => Owners(boxes[ret.box].pointer) = {ret.box}

C8_Witness ==
    /\ ret.op = "unlock" /\ ret.res = "Ok" /\ Live(ret.box)
    /\ Cardinality({j \in BoxIds : boxes[j].st = "forgotten"
                                   /\ boxes[j].pointer = boxes[ret.box].pointer}) = 2

\* C9: the value read from a Locked container, and from the Unlocked
\* container a following unlock() yields, equals the value the Unlocked
\* container held when lock() was called.
C9_RoundTrip ==
    \A i \in BoxIds : Live(i) =>
        /\ boxes[i].L = "Locked" => held[i] # NoVal
        /\ held[i] # NoVal => deref(Now, i) = held[i]

C9_Witness ==
    /\ ret.op = "unlock" /\ ret.res = "Ok" /\ Live(ret.box)
    /\ boxes[ret.box].L = "Unlocked"
    /\ held[ret.box] # NoVal /\ held[ret.box] # 0
    /\ deref(Now, ret.box) = held[ret.box]

\* C10: a live container reads the value most recently stored through
\* mutable access, or the value given to new() when nothing was stored;
\* lock() and unlock() do not change it.
C10_ReadsLastWritten ==
    \A i \in BoxIds : Live(i) => deref(Now, i) = expect[i]

C10_Witness ==
    /\ ret.op = "deref_mut" /\ ret.res = "Ok" /\ Live(ret.box)
    /\ \E j \in BoxIds : /\ boxes[j].st = "forgotten" /\ boxes[j].L = "Locked"
                         /\ boxes[j].pointer = boxes[ret.box].pointer
    /\ ret.val = MaxVal /\ deref(Now, ret.box) = MaxVal

\* --------------------------------------------- OnceLock actions
\* Thread t calls platform_secret_allocator() (c = "INSTANCE") or page_size()
\* (c = "PAGE_SIZE") and reaches get_or_init.
Call(t, c) ==
    /\ threads[t].pc = "idle"
    /\ LET todo == get_or_init(once[c].state) IN
       /\ threads' = [threads EXCEPT ![t] =
              IF todo = "return"
              THEN [pc |-> "idle", cell |-> c, got |-> once[c].value]
              ELSE [pc |-> todo, cell |-> c, got |-> None]]
       /\ once' = [once EXCEPT ![c].state = IF todo = "init" THEN "running" ELSE @,
                               ![c].seen = IF todo = "return" THEN @ \cup {once[c].value}
                                           ELSE @]

\* Thread t runs the closure, stores its value and returns it.  ans: what the
\* memfd_secret probe answers at that moment.
RunClosure(t, ans) ==
    /\ threads[t].pc = "init"
    /\ LET c == threads[t].cell
           v == Some(Closure(c, ans))
       IN  /\ once' = [once EXCEPT ![c] = [state |-> "complete", value |-> v,
                                           runs |-> @.runs + 1, seen |-> @.seen \cup {v}]]
           /\ threads' = [threads EXCEPT ![t] = [pc |-> "idle", cell |-> c, got |-> v]]

\* Thread t, which waited for the running closure, returns the stored value.
Wake(t) ==
    /\ threads[t].pc = "wait"
    /\ once[threads[t].cell].state = "complete"
    /\ LET c == threads[t].cell IN
       /\ threads' = [threads EXCEPT ![t] = [pc |-> "idle", cell |-> c, got |-> once[c].value]]
       /\ once' = [once EXCEPT ![c].seen = @ \cup {once[c].value}]

OnceNext ==
    /\ UNCHANGED containervars
    /\ UNCHANGED providervars
    /\ \/ \E t \in Threads, c \in Cells : Call(t, c)
       \/ \E t \in Threads, ans \in ProbeAnswers : RunClosure(t, ans)
       \/ \E t \in Threads : Wake(t)

OnceSpec == ProviderInit /\ [][OnceNext]_vars

\* ------------------------------------------------ layout arithmetic
\* Layout::align() is a power of two; Layout::size() is at most isize::MAX.
Aligns == {2 ^ k : k \in 0..(WordBits - 1)}
Sizes  == 0..IsizeMax

LayoutInit ==
    /\ ContainerIdle
    /\ mem = NoMem
    /\ os = NoOs
    /\ calc \in [size : Sizes, align : Aligns, out : {NoVal}]
    /\ OnceIdle

\* aligned_layout_size(&layout)
AlignedLayoutSize ==
    /\ calc.out = NoVal
    /\ calc' = [calc EXCEPT !.out = aligned_layout_size(calc.size, calc.align)]
    /\ UNCHANGED <<mem, os>>

LayoutNext == AlignedLayoutSize /\ UNCHANGED containervars /\ UNCHANGED oncevars

LayoutSpec == LayoutInit /\ [][LayoutNext]_vars

\* C15: aligned_layout_size returns the smallest multiple of max(align,
\* page_size) that is at least the size: 0 for size 0, the size itself when it
\* is such a multiple, the next multiple otherwise.
C15_SmallestMultiple ==
    calc.out # NoVal =>
        LET g == Max(calc.align, PageSize) IN
        /\ calc.out % g = 0
        /\ calc.out >= calc.size
        /\ calc.out - calc.size < g
        /\ calc.size = 0 => calc.out = 0
        /\ calc.size % g = 0 => calc.out = calc.size

\* The largest size, not a multiple of the page: rounded up to the next page.
C15_Witness ==
    /\ calc.size = IsizeMax /\ calc.align = 1
    /\ calc.out = IsizeMax + 1

\* ------------------------------------------- claims on provider regions
Called(log, c) == \E k \in 1..Len(log) : log[k] = c

\* C12: a with_length of the generic POSIX or the Windows back end that returns
\* an error has undone every step that had succeeded: the call leaves no
\* mapping, no page lock and no core-dump advice behind.
C12_AllOrNothing ==
    (os.op = "with_length" /\ os.backend \in {"unix", "windows"} /\ os.res = "Err")
        => /\ ~os.mapped /\ ~os.locked /\ ~os.nodump
           /\ mem.kind = "none"

\* A POSIX allocation whose madvise failed after mmap and mlock had succeeded.
C12_Witness ==
    /\ os.op = "with_length" /\ os.backend = "unix" /\ os.res = "Err"
    /\ os.log = <<"mmap", "mlock", "madvise_dontdump", "munlock", "munmap">>
    /\ ~os.mapped /\ ~os.locked

\* C13: a region handed out by the generic POSIX back end is mapped, pinned
\* and excluded from core dumps, one handed out by the Windows back end is
\* mapped and pinned: with_length returns Ok only after all of its steps succeeded.
C13_OnlyPinnedRegions ==
    /\ (os.op = "with_length" /\ os.res = "Ok" /\ os.backend = "unix")
          => os.mapped /\ os.locked /\ os.nodump
    /\ (os.op = "with_length" /\ os.res = "Ok" /\ os.backend = "windows")
          => os.mapped /\ os.locked
    /\ (MemLive /\ mem.backend = "unix")
          => mem.held.mapped /\ mem.held.locked /\ mem.held.nodump
    /\ (MemLive /\ mem.backend = "windows")
          => mem.held.mapped /\ mem.held.locked

\* A Windows region, handed out pinned and since made read-only.
C13_Witness ==
    /\ MemLive /\ mem.kind = "readonly" /\ mem.backend = "windows"
    /\ mem.held.log = <<"VirtualAlloc", "VirtualLock">>
    /\ mem.held.locked

\* Position of the first step of a log that is one of names, 0 when there is none.
First(log, names) ==
    IF \E k \in 1..Len(log) : log[k] \in names
    THEN CHOOSE k \in 1..Len(log) : log[k] \in names /\ \A h \in 1..(k - 1) : log[h] \notin names
    ELSE 0

\* C14: the release of a provider region zeroes the bytes before it unlocks
\* and before it unmaps, unlocks before it unmaps or frees, restores write
\* permission before zeroing when the region was made read-only, and on POSIX
\* reverses the core-dump exclusion after zeroing and before unlocking; a
\* release that ran to its end made every one of these steps.
C14_ReleaseOrder ==
    mem.kind = "dropped" =>
        LET log      == mem.reg.log
            pProtect == First(log, {"mprotect_write", "VirtualProtect_readwrite"})
            pZero    == First(log, {"zeroize"})
            pDodump  == First(log, {"madvise_dodump"})
            pUnlock  == First(log, {"munlock", "VirtualUnlock"})
            pUnmap   == First(log, {"munmap", "VirtualFree"})
        IN  /\ pUnmap > 0 => (0 < pZero /\ pZero < pUnmap)
            /\ pUnlock > 0 => (0 < pZero /\ pZero < pUnlock)
            /\ (pUnlock > 0 /\ pUnmap > 0) => pUnlock < pUnmap
            /\ pDodump > 0 => (0 < pZero /\ pZero < pDodump /\ (pUnlock > 0 => pDodump < pUnlock))
            /\ (Called(log, "mprotect_read") /\ pZero > 0) => (0 < pProtect /\ pProtect < pZero)
            /\ ~mem.reg.fault =>
                  /\ pZero > 0 /\ pUnmap > 0
                  /\ mem.backend \in {"unix", "windows"} => pUnlock > 0
                  /\ mem.backend = "unix" => pDodump > 0

\* A read-only POSIX region released to its end.
C14_Witness ==
    /\ mem.kind = "dropped" /\ mem.backend = "unix" /\ ~mem.reg.fault
    /\ mem.reg.log = <<"mprotect_read", "mprotect_write", "zeroize", "madvise_dodump",
                       "munlock", "munmap">>
    /\ ~mem.reg.mapped

\* -------------------------------------- claims on descriptors and probes
DescriptorCalls ==
    {"with_length", "mmap_memfd_secret", "memfd_secret_available", "platform_secret_allocator"}

\* C19: when a call that asks for a memfd_secret descriptor returns, the
\* descriptor it obtained has been closed by exactly one close call, whatever
\* step failed, and a call that obtained no descriptor made no close call.
C19_DescriptorClosedOnce ==
    os.op \in DescriptorCalls =>
        /\ os.fd = "none" => os.closes = 0
        /\ os.fd # "none" => (os.fd = "closed" /\ os.closes = 1)
        /\ \A k \in 1..Len(os.log) : os.log[k] = "close" => k = Len(os.log)

\* An allocation of the Linux back end whose ftruncate failed.
C19_Witness ==
    /\ os.op = "with_length" /\ os.backend = "linux" /\ os.res = "Err"
    /\ os.log = <<"memfd_secret", "ftruncate", "close">>
    /\ os.fd = "closed" /\ os.closes = 1

\* What the memfd_secret call of the probe in o answered.
ProbeAnswer(o) == IF o.errno = "none" THEN "fd" ELSE o.errno

\* C17: the call of platform_secret_allocator that runs the probe selects the
\* Linux back end exactly when the kernel supports memfd_secret, and the
\* generic POSIX back end exactly when it does not; it always selects one.
C17_LinuxWheneverSupported ==
    (os.op = "platform_secret_allocator" /\ os.log # <<>>) =>
        /\ allocator = os.res
        /\ os.res \in {"linux", "unix"}
        /\ os.res = "linux" <=> Supported(ProbeAnswer(os))

\* C20: memfd_secret_available returns true exactly when the memfd_secret
\* system call is supported: true when the probe call returns a descriptor,
\* false when it fails because the facility is unsupported.
C20_AvailableIffSupported ==
    os.op = "memfd_secret_available" =>
        /\ ProbeAnswer(os) = "fd" => os.res = "true"
        /\ ProbeAnswer(os) = "ENOSYS" => os.res = "false"

\* ------------------------------------------ claims on the OnceLock statics
\* The calls on cell c that have returned to their thread.
Returned(c) == {t \in Threads : threads[t].cell = c /\ threads[t].got # None}

\* C16: however the calls of platform_secret_allocator interleave, the probe
\* and the construction of the back end run at most once, and once before any
\* call returns; every call returns the one stored back end, whatever later
\* probes would answer.
C16_SelectedOnce ==
    LET c == once["INSTANCE"] IN
    /\ c.runs <= 1
    /\ Cardinality(c.seen) <= 1
    /\ c.state = "complete" => (c.runs = 1 /\ c.value \in {Some("linux"), Some("unix")} /\ c.seen = {c.value})
    /\ c.state # "complete" => (c.runs = 0 /\ c.seen = {})
    /\ \A t \in Returned("INSTANCE") : threads[t].got = c.value

\* Two threads have the Linux back end from one run of the closure while a
\* third, which arrived during that run, is still waiting.
C16_Witness ==
    /\ once["INSTANCE"].runs = 1
    /\ \E t, u, w \in Threads :
          /\ t # u
          /\ {t, u} \subseteq Returned("INSTANCE")
          /\ threads[t].got = Some("linux") /\ threads[u].got = Some("linux")
          /\ threads[w].pc = "wait" /\ threads[w].cell = "INSTANCE"

\* C18: however the calls of page_size interleave, the operating system is
\* asked at most once, and once before any call returns; every call returns
\* the cached value.
C18_PageSizeQueriedOnce ==
    LET c == once["PAGE_SIZE"] IN
    /\ c.runs <= 1
    /\ c.state = "complete" => (c.runs = 1 /\ c.value = Some(page_size) /\ c.seen = {c.value})
    /\ c.state # "complete" => (c.runs = 0 /\ c.seen = {})
    /\ \A t \in Returned("PAGE_SIZE") : threads[t].got = Some(page_size)

\* Every thread has the page size, all from one query.
C18_Witness ==
    /\ once["PAGE_SIZE"].runs = 1
    /\ Returned("PAGE_SIZE") = Threads
    /\ \A t \in Threads : threads[t].pc = "idle" /\ threads[t].got = Some(PageSize)

\* ------------------------------------------ claims on failed construction
\* C11, as claimed: a new whose alloc fails returns to its caller, with the
\* container or with an error value the caller can handle.
C11_AllocFailureReturned ==
    ret.op = "new" => ret.res \in {"Ok", "Err"}

\* C11: a new whose alloc fails panics with "Unable to allocate secret memory"
\* and unwinds out of its caller: it returns no value, builds no container and
\* leaves no region; a failed lock or unlock returns Err with the container.
C11_AllocFailurePanics ==
    /\ ret.op = "new" => ret.res \in {"Ok", "panic"}
    /\ (ret.op = "new" /\ ret.res = "panic") =>
          /\ ret.box = 0
          /\ \A i \in BoxIds : i > nboxes => boxes[i] = NoBox
          /\ \A r \in RegIds : r > nregions => regions[r] = NoRegion
    /\ ret.op \in {"lock", "unlock"} => ret.res \in {"Ok", "Err"}

\* A new that panicked on the failed alloc, before any container was built.
C11_Witness ==
    /\ ret.op = "new" /\ ret.res = "panic"
    /\ nboxes = 0 /\ nregions = 0
    /\ allocator # "uninit"

\* ------------------------------------------ claims on the region length
\* C21, as claimed: the length recorded for a region is the page-aligned size
\* of the length that was asked of with_length, never that length itself.
C21_LengthPageAligned ==
    mem.kind # "none" =>
        /\ mem.reg.len = aligned_layout_size(mem.held.len, 1)
        /\ mem.reg.len % PageSize = 0

\* C21: the length recorded for a region, which its zeroing covers, is the
\* length passed to with_length, page-aligned or not; a region is page-aligned
\* when its maker passes a page-aligned length.
C21_LengthAsRequested ==
    mem.kind # "none" =>
        /\ mem.reg.len = mem.held.len
        /\ Len(mem.reg.bytes) = mem.held.len
        /\ (mem.held.len % PageSize = 0 <=> mem.reg.len % PageSize = 0)

\* A region of one cell, less than a page, made read-only with that length.
C21_Witness ==
    /\ MemLive /\ mem.kind = "readonly"
    /\ mem.held.len = 1 /\ mem.reg.len = 1
    /\ mem.reg.len % PageSize # 0

\* C22: a live region made by with_length(n) exposes exactly n cells at the
\* address the mapping call returned; every cell reads the last value stored
\* into it (zero when none was), before and after the conversion to read-only,
\* which keeps the address, the length and every cell.
C22_RegionKeepsBytes ==
    MemLive =>
        /\ Len(mem.reg.bytes) = mem.held.len /\ mem.reg.len = mem.held.len
        /\ mem.mmap = mem.held.addr /\ mem.mmap # 0
        /\ \A c \in 1..mem.reg.len : slice_load(mem.reg, c) = mem.wrote[c]

\* A read-only region of the largest length whose first and last cells hold
\* what was stored before the conversion.
C22_Witness ==
    /\ MemLive /\ mem.kind = "readonly" /\ mem.reg.len = IsizeMax
    /\ slice_load(mem.reg, 1) = MaxVal /\ slice_load(mem.reg, IsizeMax) = 1
    /\ mem.wrote[1] = MaxVal

\* ------------------------------------ claims on the life of the value
\* How many times step s was taken on a region.
Count(log, s) == Cardinality({k \in 1..Len(log) : log[k] = s})

\* C23: the value of a region is destructed in place at most once; not while
\* a container owns the region, so not by a lock or an unlock and not before
\* a read; and exactly once, as the first step and so before every step of
\* the release, when its container has been destroyed.
C23_DestructedOnce ==
    /\ \A r \in RegIds :
          LET n == Count(regions[r].log, "drop_in_place") IN
          /\ n <= 1
          /\ regions[r].dtors <= n
          /\ Owners(r) # {} => n = 0
          /\ (\E i \in BoxIds : Dropped(i) /\ boxes[i].pointer = r) =>
                (n = 1 /\ regions[r].log[1] = "drop_in_place")
    /\ (ret.op \in {"lock", "unlock", "deref", "deref_mut"} /\ ret.res # "fault") =>
          Count(Region(ret.box).log, "drop_in_place") = 0

\* A Locked container, made by a lock whose source was forgotten, destroyed:
\* one destruction of the value, then the release.
C23_Witness ==
    \E i, j \in BoxIds :
        /\ boxes[i].st = "forgotten" /\ boxes[i].L = "Unlocked"
        /\ Dropped(j) /\ boxes[j].L = "Locked" /\ boxes[j].pointer = boxes[i].pointer
        /\ Region(j).dtors = 1 /\ ~Region(j).fault
        /\ Region(j).log[1] = "drop_in_place" /\ Region(j).deallocs = 1

\* C24: a Locked container only arises from a successful lock() on an
\* Unlocked container.  new() and default() return an Unlocked container; a
\* successful lock() returns a Locked one built from an Unlocked container that
\* is consumed without its destructor; a failed unlock() returns the Locked
\* container it was given; a successful unlock() returns an Unlocked one.
\* So every Locked container has a consumed Unlocked predecessor on its region.
LockedFrom(j) ==
    {i \in BoxIds : /\ i < j
                    /\ boxes[i].st = "forgotten"
                    /\ boxes[i].L = "Unlocked"
                    /\ boxes[i].pointer = boxes[j].pointer}

C24_LockedOnlyFromLock ==
    /\ \A j \in BoxIds :
          (boxes[j].st # "unused" /\ boxes[j].L = "Locked") => LockedFrom(j) # {}
    /\ (ret.op = "new" /\ ret.res = "Ok") =>
          (Live(ret.box) /\ boxes[ret.box].L = "Unlocked")
    /\ (ret.op = "lock" /\ ret.res = "Ok") =>
          (boxes[ret.box].L = "Locked" /\ ret.box = nboxes /\ LockedFrom(ret.box) # {})
    /\ (ret.op = "lock" /\ ret.res = "Err") => boxes[ret.box].L = "Unlocked"
    /\ (ret.op = "unlock" /\ ret.res = "Ok") =>
          (boxes[ret.box].L = "Unlocked" /\ ret.box = nboxes)
    /\ (ret.op = "unlock" /\ ret.res = "Err") =>
          (Live(ret.box) /\ boxes[ret.box].L = "Locked" /\ LockedFrom(ret.box) # {})

C24_Witness ==
    /\ ret.op = "unlock" /\ ret.res = "Err"
    /\ Live(ret.box) /\ boxes[ret.box].L = "Locked"
    /\ \E i \in LockedFrom(ret.box) : i + 1 = ret.box /\ Region(i).perm = "ro"

\* C25: when the release of the region fails during the destruction of a
\* container (munmap returns an error, the region stays mapped), the destructor
\* still returns: no panic, no fault, one dealloc call and one munmap call, and
\* the region was zeroed before the failed munmap, so that no byte of the value
\* is left in the region that stays mapped.
ReleaseFailed(r) ==
    /\ regions[r].mapped
    /\ Pos(regions[r].log, "munmap") > 0

C25_FailedReleaseIgnored ==
    /\ \A r \in RegIds : ReleaseFailed(r) =>
          /\ ~regions[r].fault
          /\ regions[r].deallocs = 1
          /\ Count(regions[r].log, "munmap") = 1
          /\ Count(regions[r].log, "zeroize") = 1
          /\ Before(regions[r].log, "drop_in_place", "zeroize")
          /\ Before(regions[r].log, "zeroize", "munmap")
          /\ regions[r].log[Len(regions[r].log)] = "munmap"
          /\ regions[r].bytes = ZeroBytes(regions[r].len)
          /\ regions[r].oserrs >= 1
    /\ (ret.op = "drop" /\ ReleaseFailed(boxes[ret.box].pointer)) =>
          (ret.res = "Ok" /\ ~crashed /\ Dropped(ret.box))

C25_Witness ==
    /\ ret.op = "drop" /\ ret.res = "Ok" /\ ret.val # 0
    /\ boxes[ret.box].L = "Locked" /\ Dropped(ret.box)
    /\ ReleaseFailed(boxes[ret.box].pointer)
    /\ Region(ret.box).oserrs = 1
    /\ Region(ret.box).bytes = ZeroBytes(Region(ret.box).len)

\* What a caller of the container can observe of a world: the containers, and
\* of each region everything but the names of the OS calls of the release.
Observed(w) ==
    [boxes   |-> w.boxes,
     regions |-> [r \in RegIds |-> [w.regions[r] EXCEPT !.log = <<>>]]]

DropWith(backend, i, mprotect, munmap) ==
    drop(Now, i, [backend |-> backend, glue |-> boxes[i].glue,
                  mprotect |-> mprotect, munmap |-> munmap])

\* The calls of a destruction that both releases make: the log without the
\* calls only the generic POSIX release makes.
CommonCalls(log) ==
    LET common(c) == c \notin {"madvise_dodump", "munlock"} IN SelectSeq(log, common)

\* The calls the destruction of a container in lock state L makes with the
\* Linux back end.
LinuxDropCalls(L) ==
    SecretBoxDropSteps(L)
        \o (IF L = "Locked" THEN DropReadOnlySteps("linux") ELSE DropMutSteps("linux"))

IsPrefix(p, q) == Len(p) <= Len(q) /\ SubSeq(q, 1, Len(p)) = p

\* C26: the container behaves the same whichever back end the selector chose.
\* new, lock, unlock, read and write do not depend on the back end.  In every
\* reachable state, destroying any live container with the release of the
\* generic POSIX back end leaves the same containers, bytes, protection,
\* mapping, counters and outcome as with the release of the Linux back end,
\* for the same answers of the OS; and a destruction that happened made the
\* calls of the Linux release in their order, all of them unless a store
\* faulted, whichever back end was selected.
C26_BackendIndependent ==
    /\ \A i \in BoxIds : Live(i) =>
          \A mprotect \in Bools, munmap \in Bools :
              Observed(DropWith("unix", i, mprotect, munmap))
                  = Observed(DropWith("linux", i, mprotect, munmap))
    /\ ret.op = "drop" =>
          /\ allocator \in {"linux", "unix"}
          /\ IsPrefix(CommonCalls(Region(ret.box).log), LinuxDropCalls(boxes[ret.box].L))
          /\ ~Region(ret.box).fault =>
                CommonCalls(Region(ret.box).log) = LinuxDropCalls(boxes[ret.box].L)
          /\ ret.res = (IF Region(ret.box).fault THEN "fault" ELSE "Ok")

C26_Witness ==
    /\ allocator = "unix"
    /\ ret.op = "drop" /\ ret.res = "Ok" /\ ret.val # 0
    /\ Dropped(ret.box) /\ boxes[ret.box].L = "Locked"
    /\ Pos(Region(ret.box).log, "munlock") > 0
    /\ ~Region(ret.box).mapped
    /\ Region(ret.box).bytes = ZeroBytes(Region(ret.box).len)

\* ------------------------------------------- several containers at once
\* Threads that own distinct containers: thread i keeps its container in its
\* own variable, slot i of boxes, and rebinds it to the result of lock and
\* unlock.  Every action is one operation of one thread, and the actions of the
\* threads interleave.  os is the kernel's table of the address of each mapping.
\* Two containers: self and other of a comparison, the container operated on
\* and another live one.
FleetRegions == 2
FleetBoxes   == FleetRegions
FleetBoxIds  == 1..FleetBoxes
FleetRegIds  == 1..FleetRegions

\* A comparison of the addresses of the two regions in place of their values.
eq_by_pointer(w, i, j) == w.boxes[i].pointer = w.boxes[j].pointer

\* impl PartialEq for SecretBox: PartialEq::eq(&**self, &**other).
eq(w, i, j) == deref(w, i) = deref(w, j)

\* impl Ord for SecretBox: Ord::cmp(&**self, &**other).
cmp(w, i, j) ==
    IF deref(w, i) < deref(w, j) THEN "Less"
    ELSE IF deref(w, i) = deref(w, j) THEN "Equal" ELSE "Greater"

\* impl PartialOrd for SecretBox: PartialOrd::partial_cmp(&**self, &**other).
partial_cmp(w, i, j) == Some(cmp(w, i, j))

\* impl Hash for SecretBox: (**self).hash(state); the hasher is the sequence
\* of the values written to it.
hash(w, i, state) == Append(state, deref(w, i))

\* What a DebugStruct writes: the name of the struct, its fields, and the
\* ".." that stands for the fields left out.
NoFmt == [name |-> "", fields |-> <<>>, non_exhaustive |-> FALSE]

\* A Debug that writes the value as a field of the struct.
fmt_with_value(w, i) ==
    [name |-> "SecretBox", fields |-> <<deref(w, i)>>, non_exhaustive |-> TRUE]

\* impl fmt::Debug for SecretBox<T, L>:
\* f.debug_struct("SecretBox").finish_non_exhaustive(), "SecretBox { .. }".
fmt(w, i) ==
    [name |-> "SecretBox", fields |-> <<>>, non_exhaustive |-> TRUE]

NoCmp == [a |-> 0, b |-> 0, eq |-> FALSE, ne |-> FALSE, cmp |-> "none",
          partial_cmp |-> None, hash_a |-> <<>>, hash_b |-> <<>>,
          fa |-> 0, fb |-> 0, fmt_a |-> NoFmt, fmt_b |-> NoFmt]

\* The pages of the mapping of region r.
Pages(r) ==
    IF regions[r].mapped
    THEN {os[r] \div PageSize + k : k \in 0..((regions[r].len + PageSize - 1) \div PageSize - 1)}
    ELSE {}

\* mmap(NULL, ...): the kernel places the mapping at a page-aligned address
\* whose pages are not mapped.
FreeAddrs ==
    {a \in {PageSize * k : k \in 1..FleetRegions} :
        \A r \in FleetRegIds : (a \div PageSize) \notin Pages(r)}

FleetInit ==
    /\ allocator = "uninit"
    /\ boxes = [i \in FleetBoxIds |-> NoBox]
    /\ regions = [r \in FleetRegIds |-> NoRegion]
    /\ nboxes = 0
    /\ nregions = 0
    /\ crashed = FALSE
    /\ ret = [op |-> "none", res |-> "none", box |-> 0, val |-> NoVal]
    /\ held = [i \in FleetBoxIds |-> NoVal]
    /\ expect = [i \in FleetBoxIds |-> NoVal]
    /\ os = [r \in FleetRegIds |-> 0]
    /\ calc = NoCmp
    /\ mem = NoMem
    /\ OnceIdle

FleetFault(w) == \E r \in FleetRegIds : w.regions[r].fault

\* Thread i: let b = SecretBox::new(v), the allocation succeeding at address a.
FleetNew(i, v, probe, a) ==
    /\ ~crashed
    /\ boxes[i].st = "unused"
    /\ nregions < FleetRegions
    /\ a \in FreeAddrs
    /\ allocator' = platform_secret_allocator(allocator, probe)
    /\ LET w == new(Now, i, nregions + 1, v, "none") IN
       /\ boxes' = w.boxes
       /\ regions' = w.regions
    /\ os' = [os EXCEPT ![nregions + 1] = a]
    /\ nboxes' = nboxes + 1
    /\ nregions' = nregions + 1
    /\ ret' = [op |-> "new", res |-> "Ok", box |-> i, val |-> NoVal]
    /\ expect' = [expect EXCEPT ![i] = v]
    /\ calc' = NoCmp
    /\ UNCHANGED <<crashed, held>>

\* Thread i: let b = b.lock(), in both arms of the result.
FleetLock(i, probe, ok) ==
    /\ CanLock(i)
    /\ allocator' = platform_secret_allocator(allocator, probe)
    /\ LET w == lock(Now, i, i, ok) IN
       /\ boxes' = w.boxes
       /\ regions' = w.regions
       /\ crashed' = (crashed \/ FleetFault(w))
    /\ ret' = [op |-> "lock", res |-> IF ok THEN "Ok" ELSE "Err",
               box |-> i, val |-> NoVal]
    /\ calc' = NoCmp
    /\ UNCHANGED <<nboxes, nregions, held, expect, os>>

\* Thread i: let b = b.unlock(), in both arms of the result.
FleetUnlock(i, probe, ok) ==
    /\ CanUnlock(i)
    /\ allocator' = platform_secret_allocator(allocator, probe)
    /\ LET w == unlock(Now, i, i, ok) IN
       /\ boxes' = w.boxes
       /\ regions' = w.regions
       /\ crashed' = (crashed \/ FleetFault(w))
    /\ ret' = [op |-> "unlock", res |-> IF ok THEN "Ok" ELSE "Err",
               box |-> i, val |-> NoVal]
    /\ calc' = NoCmp
    /\ UNCHANGED <<nboxes, nregions, held, expect, os>>

\* Thread i: *b = v.
FleetWrite(i, v) ==
    /\ CanWrite(i)
    /\ regions' = [regions EXCEPT ![boxes[i].pointer] = ptr_write(@, v)]
    /\ crashed' = regions'[boxes[i].pointer].fault
    /\ ret' = [op |-> "deref_mut", res |-> IF crashed' THEN "fault" ELSE "Ok",
               box |-> i, val |-> NoVal]
    /\ expect' = [expect EXCEPT ![i] = v]
    /\ calc' = NoCmp
    /\ UNCHANGED <<allocator, boxes, nboxes, nregions, held, os>>

\* Thread i: b goes out of scope.
FleetDrop(i, probe, mprotect, munmap) ==
    /\ CanDrop(i)
    /\ allocator' = platform_secret_allocator(allocator, probe)
    /\ LET e == [backend |-> allocator', glue |-> boxes[i].glue,
                 mprotect |-> mprotect, munmap |-> munmap]
           w == drop(Now, i, e)
       IN  /\ boxes' = w.boxes
           /\ regions' = w.regions
           /\ crashed' = FleetFault(w)
           /\ ret' = [op |-> "drop", res |-> IF crashed' THEN "fault" ELSE "Ok",
                      box |-> i, val |-> NoVal]
    /\ calc' = NoCmp
    /\ UNCHANGED <<nboxes, nregions, held, expect, os>>

\* a == b, a != b, a.cmp(&b), a.partial_cmp(&b) and the hashes of a and b, for
\* two containers of one type SecretBox<T, L>.
FleetCompare(i, j) ==
    /\ CanRead(i) /\ CanRead(j)
    /\ boxes[i].L = boxes[j].L
    /\ calc' = [a |-> i, b |-> j,
                eq |-> eq(Now, i, j), ne |-> ~eq(Now, i, j),
                cmp |-> cmp(Now, i, j), partial_cmp |-> partial_cmp(Now, i, j),
                hash_a |-> hash(Now, i, <<>>), hash_b |-> hash(Now, j, <<>>),
                fa |-> 0, fb |-> 0, fmt_a |-> NoFmt, fmt_b |-> NoFmt]
    /\ ret' = [op |-> "cmp", res |-> "Ok", box |-> i, val |-> NoVal]
    /\ UNCHANGED <<allocator, boxes, regions, nboxes, nregions, crashed, held, expect, os>>

\* format!("{:?}", a) and format!("{:?}", b) for two containers, each of them
\* in either lock state.
FleetDebug(i, j) ==
    /\ ~crashed /\ Live(i) /\ Live(j)
    /\ calc' = [NoCmp EXCEPT !.fa = i, !.fb = j,
                             !.fmt_a = fmt(Now, i), !.fmt_b = fmt(Now, j)]
    /\ ret' = [op |-> "fmt", res |-> "Ok", box |-> i, val |-> NoVal]
    /\ UNCHANGED <<allocator, boxes, regions, nboxes, nregions, crashed, held, expect, os>>

FleetNext ==
    /\ UNCHANGED <<mem, once, threads>>
    /\ \/ \E i \in FleetBoxIds, v \in Values, probe \in Probes, a \in FreeAddrs :
             FleetNew(i, v, probe, a)
       \/ \E i \in FleetBoxIds, probe \in Probes, ok \in Bools : FleetLock(i, probe, ok)
       \/ \E i \in FleetBoxIds, probe \in Probes, ok \in Bools : FleetUnlock(i, probe, ok)
       \/ \E i \in FleetBoxIds, v \in Values : FleetWrite(i, v)
       \/ \E i \in FleetBoxIds, probe \in Probes, mprotect \in Bools, munmap \in Bools :
             FleetDrop(i, probe, mprotect, munmap)
       \/ \E i \in FleetBoxIds, j \in FleetBoxIds : FleetCompare(i, j)
       \/ \E i \in FleetBoxIds, j \in FleetBoxIds : FleetDebug(i, j)

FleetSpec == FleetInit /\ [][FleetNext]_vars

\* The order of two values of the payload type.
ValueOrder(x, y) == IF x < y THEN "Less" ELSE IF x > y THEN "Greater" ELSE "Equal"

\* C27: comparing, ordering and hashing two containers in the same lock state
\* gives what comparing, ordering and hashing the values last stored in them
\* gives: equal values compare equal and hash alike, different values compare
\* unequal, and the order of the containers is the order of the values.
C27_CompareLikeValues ==
    calc.a # 0 =>
        LET x == expect[calc.a]
            y == expect[calc.b]
        IN  /\ boxes[calc.a].L = boxes[calc.b].L
            /\ calc.eq = (x = y)
            /\ calc.ne = (x # y)
            /\ calc.cmp = ValueOrder(x, y)
            /\ calc.partial_cmp = Some(ValueOrder(x, y))
            /\ calc.hash_a = <<x>> /\ calc.hash_b = <<y>>
            /\ (x = y) <=> (calc.hash_a = calc.hash_b)

C27_Witness ==
    /\ calc.a # 0 /\ calc.a # calc.b
    /\ boxes[calc.a].L = "Locked" /\ boxes[calc.b].L = "Locked"
    /\ boxes[calc.a].pointer # boxes[calc.b].pointer
    /\ expect[calc.a] = MaxVal /\ expect[calc.b] = MaxVal
    /\ calc.eq /\ calc.cmp = "Equal" /\ calc.hash_a = calc.hash_b

\* The call that unmaps a region of the back end.
UnmapCall(backend) == IF backend = "windows" THEN "VirtualFree" ELSE "munmap"

\* C28: when try_from fails at the protection change, the region is destroyed
\* and not handed back: the caller gets the error only, the region was zeroed
\* once and then unmapped by one call, nothing faulted, and no second release
\* ran for the consumed read-write value.
C28_FailedConversionDestroys ==
    (os.op = "try_from" /\ os.res = "Err") =>
        /\ mem.kind = "dropped" /\ ~MemLive
        /\ ~mem.reg.fault
        /\ mem.reg.log[1] = "mprotect_read"
        /\ Count(mem.reg.log, "mprotect_read") = 1
        /\ Count(mem.reg.log, "zeroize") = 1
        /\ Count(mem.reg.log, UnmapCall(mem.backend)) = 1
        /\ Before(mem.reg.log, "zeroize", UnmapCall(mem.backend))
        /\ mem.reg.log[Len(mem.reg.log)] = UnmapCall(mem.backend)
        /\ mem.reg.bytes = ZeroBytes(mem.reg.len)
        /\ mem.reg.perm # "ro"
        /\ mem.reg.mapped => mem.reg.oserrs >= 2
        /\ mem.held.mapped = mem.reg.mapped

C28_Witness ==
    /\ os.op = "try_from" /\ os.res = "Err"
    /\ mem.kind = "dropped" /\ mem.backend = "unix"
    /\ mem.wrote[1] = MaxVal
    /\ mem.reg.bytes = ZeroBytes(mem.reg.len) /\ mem.reg.len = PageSize
    /\ ~mem.reg.mapped /\ mem.reg.oserrs = 1

\* The call of Drop for the read-only region that restores write permission.
ProtectWriteCall(backend) ==
    IF backend = "windows" THEN "VirtualProtect_readwrite" ELSE "mprotect_write"

\* C29: when a read-only region is destroyed, the destruction goes on after
\* the call that restores write permission, failed or not: the zeroing is
\* attempted and then the release, which is attempted exactly once.
C29_ReleaseAttemptedOnce ==
    (os.op = "drop" /\ mem.kind = "dropped"
        /\ Pos(mem.reg.log, "mprotect_read") > 0) =>
        /\ Count(mem.reg.log, ProtectWriteCall(mem.backend)) = 1
        /\ Count(mem.reg.log, "zeroize") = 1
        /\ Count(mem.reg.log, UnmapCall(mem.backend)) = 1
        /\ Before(mem.reg.log, ProtectWriteCall(mem.backend), "zeroize")
        /\ Before(mem.reg.log, "zeroize", UnmapCall(mem.backend))

\* No page belongs to two mappings, every region of a live container is a
\* whole number of pages, and two live containers never point to one region.
PagesDisjoint ==
    /\ \A r \in FleetRegIds, q \in FleetRegIds : r # q => Pages(r) \cap Pages(q) = {}
    /\ \A i \in FleetBoxIds : Live(i) =>
          /\ Pages(boxes[i].pointer) # {}
          /\ os[boxes[i].pointer] % PageSize = 0
          /\ Region(i).len % PageSize = 0
          /\ \A j \in FleetBoxIds : (Live(j) /\ j # i) => boxes[j].pointer # boxes[i].pointer

\* C30: with several live containers, every operation of a thread on its
\* container (new, lock, unlock, write, drop, compare) leaves every other live
\* container as it was, with the permission, the bytes, the mapping, the
\* address and the pages of its region, in every interleaving; and the
\* regions of live containers never share a page.
C30_OtherRegionsUntouched ==
    [][ /\ PagesDisjoint'
        /\ \A j \in FleetBoxIds : (Live(j) /\ j # ret'.box) =>
              /\ boxes'[j] = boxes[j]
              /\ regions'[boxes[j].pointer] = regions[boxes[j].pointer]
              /\ os'[boxes[j].pointer] = os[boxes[j].pointer]
              /\ Pages(boxes[j].pointer)' = Pages(boxes[j].pointer)
              /\ expect'[j] = expect[j]
      ]_vars

C30_Witness ==
    /\ ret.op = "drop" /\ ret.box = 1 /\ Dropped(1)
    /\ ~Region(1).mapped /\ Region(1).bytes = ZeroBytes(Region(1).len)
    /\ Live(2) /\ boxes[2].L = "Locked"
    /\ Region(2).mapped /\ Region(2).perm = "ro" /\ deref(Now, 2) = MaxVal
    /\ boxes[1].pointer # boxes[2].pointer
    /\ os[boxes[1].pointer] # os[boxes[2].pointer]

\* C31: the Windows back end rejects a length of 0 and a length above
\* isize::MAX with an invalid-input error before it makes any OS call: nothing
\* is allocated or locked and no region is handed out; and it rejects no
\* other length in this way.
C31_WindowsRejectsBadLength ==
    (os.op = "with_length" /\ os.backend = "windows") =>
        /\ (os.len = 0 \/ os.len > IsizeMax) =>
              /\ os.res = "Err" /\ os.error = "InvalidInput"
              /\ os.log = <<>> /\ os.failed = "none"
              /\ ~os.mapped /\ ~os.locked /\ os.addr = 0
              /\ mem.kind = "none"
        /\ os.error = "InvalidInput" => (os.len = 0 \/ os.len > IsizeMax)

C31_Witness ==
    /\ os.op = "with_length" /\ os.backend = "windows"
    /\ os.len = IsizeMax + 1
    /\ os.res = "Err" /\ os.error = "InvalidInput" /\ os.log = <<>>

\* C32: for every layout size up to isize::MAX and every power-of-two
\* alignment the wrapping addition size + align and the wrapping subtraction
\* of 1 give the exact integer results, so nothing wraps around the word: the
\* result is at least the size, and is not 0 when the size is not 0.
C32_NoWrapAround ==
    calc.out # NoVal =>
        LET align == Max(calc.align, page_size)
            sum   == wrapping_add(calc.size, align)
        IN  /\ sum = calc.size + align
            /\ wrapping_sub(sum, 1) = calc.size + align - 1
            /\ calc.size + align - 1 < WordMod
            /\ calc.out >= calc.size
            /\ calc.size # 0 => calc.out # 0

\* The largest size with the largest alignment: the sum is 2^w - 2.
C32_Witness ==
    /\ calc.size = IsizeMax /\ calc.align = 2 ^ (WordBits - 1)
    /\ wrapping_add(calc.size, calc.align) = WordMod - 1
    /\ calc.out = 2 ^ (WordBits - 1)

\* C33: when a step of with_length fails, the error returned to the caller is
\* the OS error of the step that failed, whatever the calls that undo the
\* earlier steps did to the last-error value before the error is read.
C33_ErrorOfFailedStep ==
    (os.op = "with_length" /\ os.res = "Err" /\ os.failed # "none") =>
        os.error = os.failed

\* C34: the Debug output of a container does not depend on the value it
\* holds: two containers, each in either lock state and whatever their values,
\* give the same output, which shows the name of the struct and no field.
C34_DebugHidesValue ==
    calc.fa # 0 =>
        /\ calc.fmt_a = calc.fmt_b
        /\ calc.fmt_a.name = "SecretBox"
        /\ calc.fmt_a.fields = <<>>
        /\ calc.fmt_a.non_exhaustive

\* Different values, one container unlocked and the other locked.
C34_Witness ==
    /\ calc.fa # 0 /\ calc.fa # calc.fb
    /\ Live(calc.fa) /\ Live(calc.fb)
    /\ boxes[calc.fa].L = "Unlocked" /\ boxes[calc.fb].L = "Locked"
    /\ deref(Now, calc.fa) # deref(Now, calc.fb)
    /\ expect[calc.fa] # expect[calc.fb]
    /\ calc.fmt_a = calc.fmt_b

=============================================================================
